---- MODULE Spec2Model ----
(***************************************************************************)
(* A model of mahotas/labeled.py: connected-component labeling and the     *)
(* operations on label maps (relabel, is_same_labeling, remove_regions,    *)
(* remove_bordering, bwperim, perimeter).                                  *)
(*                                                                         *)
(* An ndarray is a record [shape, data]: a 2-D shape <<rows, cols>> and    *)
(* the elements in C (row-major) order.  The caller's arrays live in a     *)
(* heap `mem`, indexed by buffer ids, so that "the same array object"      *)
(* (out is im, or inplace=True) is told apart from "an equal array".      *)
(*                                                                         *)
(* labeled.py is a wrapper: the native kernels of _labeled, morph's        *)
(* get_structuring_elem, internal's _get_output and mahotas' convolve and  *)
(* fullhistogram are not in labeled.py; they are modelled from the         *)
(* specification's description of them.                                    *)
(***************************************************************************)
EXTENDS Integers, Sequences, FiniteSets, TLC

VARIABLES
    mem,                \* heap: buffer id -> ndarray
    orig,               \* the heap before any call
    pre,                \* the heap as it was when the last call was made
    call,               \* the last call: its arguments and what it returned
    prev,               \* the call before the last
    _perimeter_values,  \* the module global of that name (labeled.py:449)
    pc,                 \* per thread: position inside perimeter()
    loc,                \* per thread: perimeter()'s locals
    inits               \* how many times the global table was allocated

vars == <<mem, orig, pre, call, prev, _perimeter_values, pc, loc, inits>>

---------------------------------------------------------------------------
(* ndarrays *)

NoArray == [shape |-> <<0, 0>>, data |-> <<>>]

Size(shape) == shape[1] * shape[2]

\* 0-based coordinates of the i-th element (1-based) in C order
RowOf(shape, i) == (i - 1) \div shape[2]
ColOf(shape, i) == (i - 1) % shape[2]
FlatOf(shape, r, c) == r * shape[2] + c + 1
ValidPos(shape, r, c) == r >= 0 /\ r < shape[1] /\ c >= 0 /\ c < shape[2]

ArraysOf(shape, values) ==
    { [shape |-> shape, data |-> d] : d \in [1..Size(shape) -> values] }

Filled(shape, v) == [shape |-> shape, data |-> [i \in 1..Size(shape) |-> v]]

SetMin(S) == CHOOSE x \in S : \A y \in S : x <= y
SetMax(S) == CHOOSE x \in S : \A y \in S : x >= y

Values(a) == { a.data[i] : i \in 1..Len(a.data) }

---------------------------------------------------------------------------
(* Structuring elements.  Bc is [given, shape, offs]: `given` is FALSE for   *)
(* Bc=None; shape is the sequence of its extents; offs is N(Bc), the set of  *)
(* offsets <<dr, dc>> from the centre at which Bc is true, centre excluded.  *)

NoBc == [given |-> FALSE, shape |-> <<>>, offs |-> {}]

Offsets3x3 == { o \in (-1..1) \X (-1..1) : o # <<0, 0>> }

Cross == { <<-1, 0>>, <<0, -1>>, <<0, 1>>, <<1, 0>> }

Negated(o) == <<-o[1], -o[2]>>

Symmetric(offs) == \A o \in offs : Negated(o) \in offs

\* morph.get_structuring_elem: the 3x3 cross when Bc is None; rejects a Bc
\* of another dimensionality than the array's, or of an even extent.
get_structuring_elem(A, Bc) ==
    IF ~Bc.given THEN [ok |-> TRUE, offs |-> Cross]
    ELSE IF Len(Bc.shape) # Len(A.shape) THEN [ok |-> FALSE, offs |-> {}]
    ELSE IF \E d \in 1..Len(Bc.shape) : Bc.shape[d] % 2 = 0
         THEN [ok |-> FALSE, offs |-> {}]
    ELSE [ok |-> TRUE, offs |-> Bc.offs]

\* internal._get_output: the caller's buffer when one is given and it has the
\* array's shape (else a configuration error); a new array otherwise, whose
\* contents are whatever np.empty finds in memory (`fresh`).
_get_output(m, array, out, new, fresh) ==
    IF out = 0 THEN [ok |-> TRUE, id |-> new,
                     mem |-> [m EXCEPT ![new] = Filled(m[array].shape, fresh)]]
    ELSE IF m[out].shape # m[array].shape THEN [ok |-> FALSE, id |-> 0, mem |-> m]
    ELSE [ok |-> TRUE, id |-> out, mem |-> m]

---------------------------------------------------------------------------
(* The equivalence-resolution engine: a forest over provisional labels 1..M  *)
(* kept as a sequence of parents; a root is its own parent.                  *)

RECURSIVE find(_, _)
find(parent, a) == IF parent[a] = a THEN a ELSE find(parent, parent[a])

make_set(parent) == Append(parent, Len(parent) + 1)

\* merges the sets of all of `labels`; the smallest root becomes the root
union_all(parent, labels) ==
    LET roots == { find(parent, l) : l \in labels }
        m     == SetMin(roots)
    IN  [k \in 1..Len(parent) |-> IF k \in roots THEN m ELSE parent[k]]

---------------------------------------------------------------------------
(* The labeling engine (_labeled.label), two passes.                        *)

\* the offsets of N(Bc) that point to positions the raster scan visited before
EarlierOffsets(offs) == { o \in offs : o[1] < 0 \/ (o[1] = 0 /\ o[2] < 0) }

\* the offsets pass 1 examines
Pass1Offsets(offs) == EarlierOffsets(offs)

\* Pass 1, positions 1..i done: st = [lab, parent], lab the provisional labels
RECURSIVE Pass1(_, _, _, _)
Pass1(shape, bin, offs, i) ==
    IF i = 0 THEN [lab |-> <<>>, parent |-> <<>>]
    ELSE LET st == Pass1(shape, bin, offs, i - 1)
             r  == RowOf(shape, i)
             c  == ColOf(shape, i)
             nb == { st.lab[FlatOf(shape, r + o[1], c + o[2])] :
                       o \in { x \in Pass1Offsets(offs) :
                                 ValidPos(shape, r + x[1], c + x[2]) } } \ {0}
         IN  IF bin[i] = 0 THEN [lab |-> Append(st.lab, 0), parent |-> st.parent]
             ELSE IF nb = {}
                  THEN [lab |-> Append(st.lab, Len(st.parent) + 1),
                        parent |-> make_set(st.parent)]
             ELSE [lab |-> Append(st.lab, SetMin(nb)),
                   parent |-> union_all(st.parent, nb)]

\* Renumbering in order of first appearance over positions 1..i:
\* st = [out, seen], seen the old labels in the order they were met.
RECURSIVE Renumber(_, _)
IndexIn(seq, v) == CHOOSE k \in 1..Len(seq) : seq[k] = v
Renumber(data, i) ==
    IF i = 0 THEN [out |-> <<>>, seen |-> <<>>]
    ELSE LET st == Renumber(data, i - 1)
             v  == data[i]
         IN  IF v = 0 THEN [out |-> Append(st.out, 0), seen |-> st.seen]
             ELSE IF \E k \in 1..Len(st.seen) : st.seen[k] = v
                  THEN [out |-> Append(st.out, IndexIn(st.seen, v)), seen |-> st.seen]
             ELSE [out |-> Append(st.out, Len(st.seen) + 1),
                   seen |-> Append(st.seen, v)]

\* _labeled.label(output, Bc): labels the (binarized) array in place, returns K
_labeled_label(A, offs) ==
    LET n  == Size(A.shape)
        p1 == Pass1(A.shape, A.data, offs, n)
        p2 == [i \in 1..n |-> IF p1.lab[i] = 0 THEN 0 ELSE find(p1.parent, p1.lab[i])]
        rn == Renumber(p2, n)
    IN  [arr |-> [shape |-> A.shape, data |-> rn.out], n |-> Len(rn.seen)]

\* output[:] = (array != 0)
Binarize(data) == [i \in 1..Len(data) |-> IF data[i] # 0 THEN 1 ELSE 0]

Result(m, status, ret, n) == [mem |-> m, status |-> status, ret |-> ret, n |-> n]

\* label() without line 57: the kernel runs on what the buffer held
label_stale_buffer(m, array, Bc, out, new, fresh) ==
    LET go == _get_output(m, array, out, new, fresh)
    IN  IF ~go.ok THEN Result(m, "ConfigurationError", 0, 0)
        ELSE
        LET se == get_structuring_elem(go.mem[go.id], Bc)
        IN  IF ~se.ok THEN Result(go.mem, "ConfigurationError", 0, 0)
            ELSE LET r == _labeled_label(go.mem[go.id], se.offs)
                 IN  Result([go.mem EXCEPT ![go.id] = r.arr], "ok", go.id, r.n)

\* label() passing None where line 58 passes Bc: always the default cross
label_default_Bc(m, array, Bc, out, new, fresh) ==
    LET go == _get_output(m, array, out, new, fresh)
    IN  IF ~go.ok THEN Result(m, "ConfigurationError", 0, 0)
        ELSE
        LET m1 == [go.mem EXCEPT ![go.id].data = Binarize(m[array].data)]
            se == get_structuring_elem(m1[go.id], Bc)
        IN  IF ~se.ok THEN Result(m1, "ConfigurationError", 0, 0)
            ELSE LET r == _labeled_label(m1[go.id], Cross)
                 IN  Result([m1 EXCEPT ![go.id] = r.arr], "ok", go.id, r.n)

\* label(array, Bc, out): `array` and `out` are buffer ids (out = 0: None),
\* `new` the id a newly allocated array gets.
label(m, array, Bc, out, new, fresh) ==
    LET go == _get_output(m, array, out, new, fresh)
    IN  IF ~go.ok THEN Result(m, "ConfigurationError", 0, 0)
        ELSE
        LET m1 == [go.mem EXCEPT ![go.id].data = Binarize(m[array].data)]
            se == get_structuring_elem(m1[go.id], Bc)
        IN  IF ~se.ok THEN Result(m1, "ConfigurationError", 0, 0)
            ELSE LET r == _labeled_label(m1[go.id], se.offs)
                 IN  Result([m1 EXCEPT ![go.id] = r.arr], "ok", go.id, r.n)

---------------------------------------------------------------------------
(* relabel, is_same_labeling, remove_regions.  Every array of the model is   *)
(* a C-contiguous np.intc array, which is what _check_array_labeled asks of  *)
(* `labeled`; its other test is that the shapes agree.                       *)

_check_array_labeled(array, labeled) == array.shape = labeled.shape

\* the largest C int (np.intc)
IntcMax == 2147483647

\* x.astype(np.intc): a value a C int holds is kept, one past its range wraps
\* round (two's complement)
ToIntc(x) ==
    IF x > IntcMax THEN x - IntcMax - IntcMax - 2
    ELSE IF x < -IntcMax - 1 THEN x + IntcMax + IntcMax + 2
    ELSE x

\* _labeled.relabel(labeled): renumbers in place, in order of first
\* appearance; returns the number of labels
_labeled_relabel(A) ==
    LET rn == Renumber(A.data, Size(A.shape))
    IN  [arr |-> [shape |-> A.shape, data |-> rn.out], n |-> Len(rn.seen)]

\* relabel() returning its argument, not the copy it relabeled
relabel_returns_input(m, labeled, inplace, new) ==
    IF ~_check_array_labeled(m[labeled], m[labeled])
    THEN Result(m, "ValueError", 0, 0)
    ELSE LET target == IF inplace THEN labeled ELSE new
             m1 == IF inplace THEN m ELSE [m EXCEPT ![new] = m[labeled]]
             r  == _labeled_relabel(m1[target])
         IN  Result([m1 EXCEPT ![target] = r.arr], "ok", labeled, r.n)

\* relabel(labeled, inplace): `labeled` a buffer id, `new` the copy's id
relabel(m, labeled, inplace, new) ==
    IF ~_check_array_labeled(m[labeled], m[labeled])
    THEN Result(m, "ValueError", 0, 0)
    ELSE LET target == IF inplace THEN labeled ELSE new
             m1 == IF inplace THEN m ELSE [m EXCEPT ![new] = m[labeled]]
             r  == _labeled_relabel(m1[target])
         IN  Result([m1 EXCEPT ![target] = r.arr], "ok", target, r.n)

\* _convert_labeled(labeled): an intc C-array with labeled's elements
_convert_labeled(A) ==
    [shape |-> A.shape, data |-> [i \in 1..Len(A.data) |-> ToIntc(A.data[i])]]

\* _labeled.is_same_labeling's scan over positions 1..i: st = [ok, pairs],
\* pairs the correspondence recorded so far; background is paired with
\* background from the start, so that a background mismatch is a contradiction.
RECURSIVE SameScan(_, _, _)
SameScan(d0, d1, i) ==
    IF i = 0 THEN [ok |-> TRUE, pairs |-> { <<0, 0>> }]
    ELSE LET st == SameScan(d0, d1, i - 1)
             a  == d0[i]
             b  == d1[i]
         IN  IF ~st.ok THEN st
             ELSE IF \E p \in st.pairs : \/ (p[1] = a /\ p[2] # b)
                                         \/ (p[2] = b /\ p[1] # a)
                  THEN [ok |-> FALSE, pairs |-> st.pairs]
             ELSE [ok |-> TRUE, pairs |-> st.pairs \cup { <<a, b>> }]

_labeled_is_same_labeling(A, B) == SameScan(A.data, B.data, Len(A.data)).ok

\* is_same_labeling() converting labeled0 twice
is_same_labeling_one_map(m, labeled0, labeled1) ==
    _labeled_is_same_labeling(_convert_labeled(m[labeled0]), _convert_labeled(m[labeled0]))

\* is_same_labeling(labeled0, labeled1), on buffer ids
is_same_labeling(m, labeled0, labeled1) ==
    _labeled_is_same_labeling(_convert_labeled(m[labeled0]), _convert_labeled(m[labeled1]))

SeqElems(s) == { s[k] : k \in 1..Len(s) }

RECURSIVE SortedSeq(_)
SortedSeq(S) == IF S = {} THEN <<>> ELSE <<SetMin(S)>> \o SortedSeq(S \ {SetMin(S)})

\* np.unique(np.asarray(regions, dtype=np.intc)): sorted, without duplicates
np_unique_intc(regions) == SortedSeq({ ToIntc(v) : v \in SeqElems(regions) })

\* _labeled.remove_regions(labeled, regions): zeroes, in place, every position
\* whose label is one of `regions`
_labeled_remove_regions(A, regions) ==
    [shape |-> A.shape,
     data |-> [i \in 1..Len(A.data) |->
                 IF A.data[i] \in SeqElems(regions) THEN 0 ELSE A.data[i]]]

\* remove_regions() without the copy of line 181
remove_regions_no_copy(m, labeled, regions, inplace, new) ==
    IF ~_check_array_labeled(m[labeled], m[labeled])
    THEN Result(m, "ValueError", 0, 0)
    ELSE LET regs == np_unique_intc(regions)
         IN  Result([m EXCEPT ![labeled] = _labeled_remove_regions(m[labeled], regs)],
                    "ok", labeled, 0)

\* remove_regions(labeled, regions, inplace)
remove_regions(m, labeled, regions, inplace, new) ==
    IF ~_check_array_labeled(m[labeled], m[labeled])
    THEN Result(m, "ValueError", 0, 0)
    ELSE LET regs   == np_unique_intc(regions)
             target == IF inplace THEN labeled ELSE new
             m1     == IF inplace THEN m ELSE [m EXCEPT ![new] = m[labeled]]
         IN  Result([m1 EXCEPT ![target] = _labeled_remove_regions(m1[target], regs)],
                    "ok", target, 0)

---------------------------------------------------------------------------
(* remove_bordering.  A Python slice bound is None or an integer.            *)

None == [none |-> TRUE, v |-> 0]
Some(v) == [none |-> FALSE, v |-> v]
slice(start, stop) == [start |-> start, stop |-> stop]

Min2(a, b) == IF a < b THEN a ELSE b
Max2(a, b) == IF a > b THEN a ELSE b

\* a slice bound on an axis of extent n: None is the default, a negative
\* bound counts from the end, and both are clipped to 0..n
SliceBound(x, n, default) ==
    IF x.none THEN default
    ELSE IF x.v < 0 THEN Max2(x.v + n, 0)
    ELSE Min2(x.v, n)

\* the 0-based indices a slice selects on an axis of extent n
SliceIndices(sl, n) ==
    { i \in 0..(n - 1) : SliceBound(sl.start, n, 0) <= i /\ i < SliceBound(sl.stop, n, n) }

\* the two slabs of lines 213-216: slice(rsize) and slice(-rsize, None)
Borderings(rsize) == { slice(None, Some(rsize)), slice(Some(-rsize), None) }

CoordOf(shape, i, dim) == IF dim = 1 THEN RowOf(shape, i) ELSE ColOf(shape, i)

\* lines 210-221: the nonzero values of im[index], index a bordering slice on
\* one axis and everything on the others
InvalidLabels(im, rsize) ==
    { im.data[i] : i \in { k \in 1..Size(im.shape) :
                            \E dim \in 1..Len(im.shape) : \E b \in Borderings(rsize) :
                               CoordOf(im.shape, k, dim) \in SliceIndices(b, im.shape[dim]) } }
      \ {0}

\* lines 230-231: for val in invalid: out *= (im != val); im and out are
\* buffer ids, and may be the same buffer
RECURSIVE ZeroLoop(_, _, _, _)
ZeroLoop(m, out, im, invalid) ==
    IF invalid = {} THEN m
    ELSE LET val == SetMin(invalid)
             m1  == [m EXCEPT ![out].data =
                        [i \in 1..Len(m[out].data) |->
                           m[out].data[i] * (IF m[im].data[i] # val THEN 1 ELSE 0)]]
         IN  ZeroLoop(m1, out, im, invalid \ {val})

\* remove_bordering(labeled, rsize, out, output): buffer ids, 0 for None.
\* Line 224 formats its warning with `fname`, a name that neither the
\* function nor the module defines: evaluating it raises NameError.
remove_bordering(m, labeled, rsize, out, output, new) ==
    LET invalid == InvalidLabels(m[labeled], rsize)
    IN  IF out = 0 /\ output # 0 THEN Result(m, "NameError", 0, 0)
        ELSE LET target == IF out = 0 THEN new ELSE out
                 m1 == IF out = 0 THEN [m EXCEPT ![new] = m[labeled]]
                       ELSE IF out # labeled
                            THEN [m EXCEPT ![out].data = m[labeled].data]
                       ELSE m
             IN  Result(ZeroLoop(m1, target, labeled, invalid), "ok", target, 0)

---------------------------------------------------------------------------
(* bwperim and perimeter.                                                    *)

\* the structuring element of a connectivity n: the cross for 4, the full
\* 3x3 square for 8
ConnectivityOffsets(n) == IF n = 8 THEN Offsets3x3 ELSE Cross

\* the value at <<r, c>>, mode 'constant': 0 outside the array
ValueAtConstant(A, r, c) ==
    IF ValidPos(A.shape, r, c) THEN A.data[FlatOf(A.shape, r, c)] ELSE 0

\* _labeled.borders(labeled, Bc, output, constant): true where a neighbour
\* under N(Bc) carries another label
borders(L, offs) ==
    [shape |-> L.shape,
     data |-> [i \in 1..Size(L.shape) |->
                 \E o \in offs :
                    ValueAtConstant(L, RowOf(L.shape, i) + o[1], ColOf(L.shape, i) + o[2])
                       # L.data[i]]]

\* bwperim() returning borders() alone, background side of the edge included
bwperim_unmasked(bw, n) ==
    LET b  == [shape |-> bw.shape, data |-> Binarize(bw.data)]
        bd == borders(b, ConnectivityOffsets(n))
    IN  [shape |-> bw.shape,
         data |-> [i \in 1..Size(bw.shape) |-> IF bd.data[i] THEN 1 ELSE 0]]

\* bwperim(bw, n, mode='constant'), as the 0/1 array perimeter() makes of it
\* (perim.astype(np.uint8), line 485)
bwperim(bw, n) ==
    LET b  == [shape |-> bw.shape, data |-> Binarize(bw.data)]
        bd == borders(b, ConnectivityOffsets(n))
    IN  [shape |-> bw.shape,
         data |-> [i \in 1..Size(bw.shape) |->
                     IF b.data[i] = 1 /\ bd.data[i] THEN 1 ELSE 0]]

\* _perimeter_magic, by offset from the centre
_perimeter_magic(o) ==
    IF o = <<0, 0>> THEN 1 ELSE IF o[1] = 0 \/ o[2] = 0 THEN 2 ELSE 10

KernelOffsets == <<  <<-1, -1>>, <<-1, 0>>, <<-1, 1>>,
                     <<0, -1>>,  <<0, 0>>,  <<0, 1>>,
                     <<1, -1>>,  <<1, 0>>,  <<1, 1>>  >>

\* an index one step outside an axis of extent n is reflected back inside
Reflected(x, n) == IF x < 0 THEN 0 ELSE IF x >= n THEN n - 1 ELSE x

ValueAtReflect(A, r, c) ==
    A.data[FlatOf(A.shape, Reflected(r, A.shape[1]), Reflected(c, A.shape[2]))]

\* the sum over the first k kernel offsets, at position i
RECURSIVE ConvolveAt(_, _, _)
ConvolveAt(A, i, k) ==
    IF k = 0 THEN 0
    ELSE ConvolveAt(A, i, k - 1)
         + _perimeter_magic(KernelOffsets[k])
           * ValueAtReflect(A, RowOf(A.shape, i) - KernelOffsets[k][1],
                               ColOf(A.shape, i) - KernelOffsets[k][2])

\* mh.convolve(perim, _perimeter_magic)
convolve(A) ==
    [shape |-> A.shape,
     data |-> [i \in 1..Size(A.shape) |-> ConvolveAt(A, i, Len(KernelOffsets))]]

\* mh.fullhistogram(A): how often each of 0..max(A) occurs; entry c+1 is for c
fullhistogram(A) ==
    [c \in 1..(SetMax(Values(A)) + 1) |->
        Cardinality({ i \in 1..Size(A.shape) : A.data[i] = c - 1 })]

\* lines 484-488
PerimeterHistogram(bw, n) == fullhistogram(convolve(bwperim(bw, n)))

\* A perimeter contribution x is kept as <<a, b>> with x = (a + b * sqrt(2)) / 2:
\* 1 is <<2, 0>>, sqrt(2) is <<0, 2>>, (1 + sqrt(2)) / 2 is <<1, 1>>.
One == <<2, 0>>
Sqrt2 == <<0, 2>>
HalfOnePlusSqrt2 == <<1, 1>>

TableSize == 34

\* line 491: np.zeros(34, float); entry c+1 is for the code c
ZeroTable == [c \in 1..TableSize |-> <<0, 0>>]

SetEntries(table, codes, x) ==
    [c \in 1..Len(table) |-> IF (c - 1) \in codes THEN x ELSE table[c]]

\* lines 492-494
SetOnes(table) == SetEntries(table, {5, 7, 15, 17, 25, 27}, One)
SetSqrt2(table) == SetEntries(table, {21, 33}, Sqrt2)
SetHalf(table) == SetEntries(table, {13, 23}, HalfOnePlusSqrt2)

FullTable == SetHalf(SetSqrt2(SetOnes(ZeroTable)))

\* the dot product of the first k entries
RECURSIVE DotUpTo(_, _, _)
DotUpTo(hist, table, k) ==
    IF k = 0 THEN <<0, 0>>
    ELSE LET s == DotUpTo(hist, table, k - 1)
         IN  <<s[1] + hist[k] * table[k][1], s[2] + hist[k] * table[k][2]>>

\* lines 496-497
PerimeterDot(hist, table) == DotUpTo(hist, table, Min2(TableSize, Len(hist)))

\* perimeter(bwimage, n, mode='constant') run from start to end: `table` is
\* the global _perimeter_values when the call starts
perimeter(table, bw, n) ==
    LET hist == PerimeterHistogram(bw, n)
        t    == IF table = <<>> THEN FullTable ELSE table
    IN  [table |-> t, value |-> PerimeterDot(hist, t)]

---------------------------------------------------------------------------
(* The caller: three buffers.  Buffer 1 holds the input, buffer 2 a second   *)
(* array of the caller's (an out buffer, or the second map of a comparison), *)
(* buffer 3 is where a call's newly allocated array goes.                    *)

BufIds == 1..3

NoCall ==
    [op |-> "none", status |-> "none", ret |-> 0, n |-> 0, same |-> FALSE,
     arg |-> 0, arg2 |-> 0, Bc |-> NoBc, out |-> 0, output |-> 0, rsize |-> 0,
     regions |-> <<>>, inplace |-> FALSE, conn |-> 0, value |-> <<0, 0>>]

\* no call made yet
NoCallYet ==
    /\ orig = mem
    /\ pre = mem
    /\ call = NoCall
    /\ prev = NoCall

NoTable == <<>>
Threads == 1..2
NoLocals == [hist |-> <<>>, table |-> <<>>, result |-> <<0, 0>>]

IdleThreads ==
    /\ _perimeter_values = NoTable
    /\ pc = [t \in Threads |-> "idle"]
    /\ loc = [t \in Threads |-> NoLocals]
    /\ inits = 0

---------------------------------------------------------------------------
(* label() called once on every binary input, structuring element and out   *)
(* buffer within the bounds.                                                 *)

\* two rows, so that every offset of a 3x3 element meets a neighbour
LabelCols == 3
LabelShape == <<2, LabelCols>>

\* what an out buffer (or np.empty's memory) may hold before the call
Garbage == {0, 7}

\* binary inputs: 0 is background, any nonzero value is foreground
LabelInputs ==
    ArraysOf(LabelShape, {0, 1}) \cup { Filled(LabelShape, 2) }

ValidBcs == { [given |-> TRUE, shape |-> <<3, 3>>, offs |-> o] : o \in SUBSET Offsets3x3 }

\* wrong dimensionality (1-D for a 2-D array), or an even extent
InvalidBcs ==
    { [given |-> TRUE, shape |-> sh, offs |-> {}] : sh \in { <<3>>, <<2, 2>>, <<3, 2>> } }

BcInputs == {NoBc} \cup ValidBcs \cup InvalidBcs

\* the caller has an out buffer, holding anything, or none
OutBuffers == { NoArray } \cup { Filled(LabelShape, g) : g \in Garbage }

LabelInit ==
    /\ mem \in { <<A, B, NoArray>> : A \in LabelInputs, B \in OutBuffers }
    /\ NoCallYet
    /\ IdleThreads

LabelCall ==
    /\ call.op = "none"
    /\ \E Bc \in BcInputs :
       \E out \in IF mem[2] = NoArray THEN {0} ELSE {2} :
       \E fresh \in IF out = 0 THEN Garbage ELSE {0} :
         LET r == label(mem, 1, Bc, out, 3, fresh)
         IN  /\ mem' = r.mem
             /\ pre' = mem
             /\ call' = [NoCall EXCEPT !.op = "label", !.status = r.status,
                                       !.ret = r.ret, !.n = r.n, !.arg = 1,
                                       !.Bc = Bc, !.out = out]
             /\ prev' = call
    /\ UNCHANGED <<orig, _perimeter_values, pc, loc, inits>>

LabelNext == LabelCall

SpecLabel == LabelInit /\ [][LabelNext]_vars

---------------------------------------------------------------------------
(* Connectivity, stated without the labeling engine: positions p, q are      *)
(* adjacent when they differ by an offset of N(Bc), and connected when a     *)
(* chain of adjacent foreground positions joins them.                        *)

Fg(A) == { i \in 1..Size(A.shape) : A.data[i] # 0 }

Delta(shape, i, j) == <<RowOf(shape, j) - RowOf(shape, i), ColOf(shape, j) - ColOf(shape, i)>>

Adjacent(shape, offs, i, j) ==
    Delta(shape, i, j) \in offs \/ Delta(shape, j, i) \in offs

RECURSIVE Closure(_, _, _)
Closure(A, offs, S) ==
    LET T == S \cup { j \in Fg(A) : \E i \in S : Adjacent(A.shape, offs, i, j) }
    IN  IF T = S THEN S ELSE Closure(A, offs, T)

Component(A, offs, i) == Closure(A, offs, {i})

Components(A, offs) == { Component(A, offs, i) : i \in Fg(A) }

LabelOk == call.op = "label" /\ call.status = "ok"

UsedOffsets == get_structuring_elem(pre[1], call.Bc).offs

\* exactly the chain-connected foreground positions share a label, and K
\* counts the components
LabelsAreComponents(A, L, offs, K) ==
    /\ \A i \in Fg(A) : \A j \in Fg(A) :
          (L.data[i] = L.data[j]) <=> (j \in Component(A, offs, i))
    /\ K = Cardinality(Components(A, offs))

DiagonalPair == [shape |-> LabelShape,
                 data |-> [i \in 1..Size(LabelShape) |->
                             IF i \in {FlatOf(LabelShape, 0, 0), FlatOf(LabelShape, 1, 1)}
                             THEN 1 ELSE 0]]

\* the two ends of the first row, joined only through the second row: the
\* raster scan gives them two provisional labels and merges these later
UShape == [shape |-> LabelShape,
           data |-> [i \in 1..Size(LabelShape) |->
                       IF RowOf(LabelShape, i) = 1
                          \/ ColOf(LabelShape, i) \in {0, LabelCols - 1}
                       THEN 1 ELSE 0]]

\* the specification's scenarios for the labeling engine
LabelScenarios ==
    /\ Fg(pre[1]) = {} => call.n = 0
    /\ (pre[1] = DiagonalPair /\ UsedOffsets = Cross) => call.n = 2
    /\ (pre[1] = DiagonalPair /\ UsedOffsets = Offsets3x3) => call.n = 1

(* C1: label returns a map L of the input's shape and a count K with L[p] = 0  *)
(* exactly where A[p] = 0, and the nonzero values of L are exactly 1..K, also  *)
(* when the caller's out buffer held other contents before the call.           *)
C1_LabelMap ==
    LabelOk =>
        LET A == pre[1]
            L == mem[call.ret]
        IN  /\ L.shape = A.shape
            /\ call.out # 0 => call.ret = call.out
            /\ \A i \in 1..Size(A.shape) : (L.data[i] = 0) <=> (A.data[i] = 0)
            /\ Values(L) \ {0} = 1..call.n

C1_Witness ==
    /\ LabelOk
    /\ call.out = 2
    /\ call.n >= 2
    /\ \E i \in 1..Size(LabelShape) : pre[2].data[i] # 0 /\ pre[1].data[i] = 0

(* C2 as stated: for every valid structuring element, symmetric or not, two    *)
(* foreground positions get the same label iff a chain of foreground positions *)
(* joins them, consecutive ones differing by an offset of N(Bc); K is the      *)
(* number of such components.                                                  *)
C2_AnyBc ==
    LabelOk => /\ LabelsAreComponents(pre[1], mem[call.ret], UsedOffsets, call.n)
               /\ LabelScenarios

(* C2 amended: the same, for every structuring element whose offsets are       *)
(* symmetric about the centre (o in N(Bc) iff -o in N(Bc)).                    *)
C2_SymmetricBc ==
    (LabelOk /\ Symmetric(UsedOffsets)) =>
        /\ LabelsAreComponents(pre[1], mem[call.ret], UsedOffsets, call.n)
        /\ LabelScenarios

\* two provisional labels were merged: a U shape under the cross
C2_Witness ==
    /\ LabelOk
    /\ call.Bc.given /\ UsedOffsets = Cross
    /\ pre[1] = UShape
    /\ call.n = 1

(* C8: when label fails on an invalid structuring element, the caller's out    *)
(* buffer holds what it held before the call.                                  *)
C8_FailedLabelLeavesOut ==
    (call.op = "label" /\ call.status = "ConfigurationError" /\ call.out # 0)
        => mem[call.out] = pre[call.out]

---------------------------------------------------------------------------
(* relabel() and remove_regions() on every label map within the bounds: a    *)
(* removal or a relabeling, then a relabeling of what that returned.         *)

MaxLabel == 3

EditShape == <<2, 2>>

EditInputs == ArraysOf(EditShape, 0..MaxLabel)

\* regions in any order, with or without duplicates
RegionInputs ==
    { <<>> } \cup { <<a>> : a \in 0..MaxLabel }
             \cup { <<a, b>> : a \in 0..MaxLabel, b \in 0..MaxLabel }

EditInit ==
    /\ mem \in { <<L, NoArray, NoArray>> : L \in EditInputs }
    /\ NoCallYet
    /\ IdleThreads

\* the array the next call works on: the input, or what the last call returned
Current == IF call.op = "none" THEN 1 ELSE call.ret

\* where a call's copy goes: a buffer that is neither the input nor Current
FreeBuf == CHOOSE id \in {2, 3} : id # Current

RemoveRegionsCall ==
    /\ call.op = "none"
    /\ \E regions \in RegionInputs, inplace \in BOOLEAN :
         LET r == remove_regions(mem, Current, regions, inplace, FreeBuf)
         IN  /\ mem' = r.mem
             /\ call' = [NoCall EXCEPT !.op = "remove_regions", !.status = r.status,
                                       !.ret = r.ret, !.arg = Current,
                                       !.regions = regions, !.inplace = inplace]
    /\ pre' = mem
    /\ prev' = call
    /\ UNCHANGED <<orig, _perimeter_values, pc, loc, inits>>

RelabelCall ==
    /\ call.op = "none" \/ (call.op \in {"remove_regions", "relabel"} /\ prev.op = "none")
    /\ \E inplace \in BOOLEAN :
         LET r == relabel(mem, Current, inplace, FreeBuf)
         IN  /\ mem' = r.mem
             /\ call' = [NoCall EXCEPT !.op = "relabel", !.status = r.status,
                                       !.ret = r.ret, !.n = r.n, !.arg = Current,
                                       !.inplace = inplace]
    /\ pre' = mem
    /\ prev' = call
    /\ UNCHANGED <<orig, _perimeter_values, pc, loc, inits>>

EditNext == RemoveRegionsCall \/ RelabelCall

SpecEdit == EditInit /\ [][EditNext]_vars

Cells(A) == 1..Size(A.shape)

FirstPos(A, v) == SetMin({ i \in Cells(A) : A.data[i] = v })

\* the nonzero labels are numbered 1, 2, ... in the order the raster scan meets them
InFirstAppearanceOrder(A) ==
    \A a \in Values(A) \ {0} : \A b \in Values(A) \ {0} :
        a < b => FirstPos(A, a) < FirstPos(A, b)

Dense(A) == Values(A) \ {0} = 1..Cardinality(Values(A) \ {0})

RelabelOk == call.op = "relabel" /\ call.status = "ok"

\* what C3 says of relabel apart from the set of values of the result
RelabelRenumbers(L, R, K) ==
    /\ R.shape = L.shape
    /\ \A i \in Cells(L) : (R.data[i] = 0) <=> (L.data[i] = 0)
    /\ \A i \in Cells(L) : \A j \in Cells(L) :
          (R.data[i] = R.data[j]) <=> (L.data[i] = L.data[j])
    /\ InFirstAppearanceOrder(R)
    /\ (Dense(L) /\ InFirstAppearanceOrder(L)) => R = L

\* relabel(relabel(L)) = relabel(L): the second of two relabelings in a row
RelabelIdempotent ==
    (RelabelOk /\ prev.op = "relabel") =>
        mem[call.ret] = pre[call.arg] /\ call.n = prev.n

(* C3 as stated: relabel(L) returns R and K' with R = 0 exactly where L = 0,   *)
(* R[p] = R[q] iff L[p] = L[q], the set of values of R exactly {0, ..., K'},   *)
(* the nonzero labels numbered in order of first appearance; a dense map in    *)
(* that order is returned unchanged, and relabel is idempotent.                *)
C3_ValuesFromZero ==
    /\ RelabelOk =>
         /\ RelabelRenumbers(pre[call.arg], mem[call.ret], call.n)
         /\ Values(mem[call.ret]) = 0..call.n
    /\ RelabelIdempotent

(* C3 amended: the same, with the set of nonzero values of R exactly           *)
(* {1, ..., K'}; 0 is a value of R only when L has a background position.      *)
C3_Relabel ==
    /\ RelabelOk =>
         /\ RelabelRenumbers(pre[call.arg], mem[call.ret], call.n)
         /\ Values(mem[call.ret]) \ {0} = 1..call.n
         /\ Values(mem[call.ret]) \subseteq 0..call.n
    /\ RelabelIdempotent

\* a second relabeling, of a map that had gaps and was out of order
C3_Witness ==
    /\ RelabelOk /\ prev.op = "relabel"
    /\ ~Dense(orig[1]) /\ ~InFirstAppearanceOrder(orig[1])
    /\ call.n = 2
    /\ mem[call.ret] # orig[1]

RegionsRemoved(L, R, regions) ==
    /\ R.shape = L.shape
    /\ \A i \in Cells(L) :
          R.data[i] = IF L.data[i] \in SeqElems(regions) THEN 0 ELSE L.data[i]

\* labels {1,2,3}, region 2 removed, then relabel: labels {1,2}, the two
\* surviving regions where they were
RemoveThenRelabel ==
    (/\ RelabelOk /\ prev.op = "remove_regions"
     /\ Values(orig[1]) \ {0} = {1, 2, 3}
     /\ SeqElems(prev.regions) = {2}) =>
        LET L == orig[1]
            R == mem[call.ret]
        IN  /\ Values(R) \ {0} = {1, 2}
            /\ \A i \in Cells(L) : (R.data[i] # 0) <=> (L.data[i] \in {1, 3})
            /\ \A i \in Cells(L) : \A j \in Cells(L) :
                  (L.data[i] \in {1, 3} /\ L.data[j] \in {1, 3}) =>
                      ((R.data[i] = R.data[j]) <=> (L.data[i] = L.data[j]))

(* C6: remove_regions(L, R) is 0 where L[p] is in R and L[p] elsewhere, for    *)
(* regions in any order and with duplicates; with inplace=False the caller's   *)
(* array is unchanged, with inplace=True the returned array is L itself; a     *)
(* relabel after removing {2} from labels {1,2,3} leaves labels {1,2} on the   *)
(* two surviving regions.                                                      *)
C6_RemoveRegions ==
    /\ (call.op = "remove_regions") =>
         /\ call.status = "ok"
         /\ RegionsRemoved(pre[call.arg], mem[call.ret], call.regions)
         /\ ~call.inplace => (mem[call.arg] = pre[call.arg] /\ call.ret # call.arg)
         /\ call.inplace => call.ret = call.arg
    /\ RemoveThenRelabel

C6_Witness ==
    /\ RelabelOk /\ prev.op = "remove_regions"
    /\ Values(orig[1]) \ {0} = {1, 2, 3}
    /\ prev.regions = <<2, 2>>
    /\ ~prev.inplace
    /\ mem[1] = orig[1]

---------------------------------------------------------------------------
(* is_same_labeling() on every pair of label maps within the bounds, then on *)
(* the same pair the other way round.                                        *)

SameMaxLabel == 2

SameShape == <<2, 2>>

SameInputs == ArraysOf(SameShape, 0..SameMaxLabel)

SameInit ==
    /\ mem \in { <<M1, M2, NoArray>> : M1 \in SameInputs, M2 \in SameInputs }
    /\ NoCallYet
    /\ IdleThreads

IsSameLabelingCall ==
    /\ \E a \in {1, 2}, b \in {1, 2} :
         /\ \/ call.op = "none"
            \/ (prev.op = "none" /\ a = call.arg2 /\ b = call.arg)
         /\ call' = [NoCall EXCEPT !.op = "is_same_labeling", !.status = "ok",
                                   !.arg = a, !.arg2 = b,
                                   !.same = is_same_labeling(mem, a, b)]
    /\ pre' = mem
    /\ prev' = call
    /\ UNCHANGED <<mem, orig, _perimeter_values, pc, loc, inits>>

SameNext == IsSameLabelingCall

SpecSame == SameInit /\ [][SameNext]_vars

\* the same partition of the same foreground
SamePartition(M1, M2) ==
    /\ \A i \in Cells(M1) : (M1.data[i] = 0) <=> (M2.data[i] = 0)
    /\ \A i \in Cells(M1) : \A j \in Cells(M1) :
          (M1.data[i] # 0 /\ M1.data[j] # 0) =>
              ((M1.data[i] = M1.data[j]) <=> (M2.data[i] = M2.data[j]))

(* C4: is_same_labeling(M1, M2) is true iff the background masks coincide and  *)
(* M1[p] = M1[q] iff M2[p] = M2[q] on the foreground; is_same_labeling(L, L)   *)
(* is true, and the answer is the same with the arguments exchanged.           *)
C4_IsSameLabeling ==
    (call.op = "is_same_labeling") =>
        /\ call.same <=> SamePartition(pre[call.arg], pre[call.arg2])
        /\ call.arg = call.arg2 => call.same
        /\ (prev.op = "is_same_labeling" /\ prev.arg = call.arg2 /\ prev.arg2 = call.arg)
              => call.same = prev.same

\* two maps with other label values and the same partition, compared both ways
C4_Witness ==
    /\ call.op = "is_same_labeling" /\ prev.op = "is_same_labeling"
    /\ call.arg = 2 /\ call.arg2 = 1
    /\ call.same
    /\ mem[1] # mem[2]
    /\ Cardinality(Values(mem[1]) \ {0}) = 2

---------------------------------------------------------------------------
(* remove_bordering() on the labelings of every binary array within the      *)
(* bounds, and on the specification's 5x5 single-pixel example.              *)

BorderCols == 3
BorderShape == <<3, BorderCols>>

MaxRsize == 2

SinglePixel ==
    [shape |-> <<5, 5>>,
     data |-> [i \in 1..25 |-> IF i = FlatOf(<<5, 5>>, 2, 2) THEN 1 ELSE 0]]

BorderInputs ==
    { _labeled_label(A, offs).arr :
        A \in ArraysOf(BorderShape, {0, 1}), offs \in {Cross, Offsets3x3} }
    \cup { SinglePixel }

\* <<out, output>>: omitted, a separate buffer, the map itself (in place),
\* and the deprecated output= alone or beside out=
OutArguments == { <<0, 0>>, <<2, 0>>, <<1, 0>>, <<0, 2>>, <<2, 2>> }

BorderInit ==
    /\ mem \in { <<L, Filled(L.shape, 7), NoArray>> : L \in BorderInputs }
    /\ NoCallYet
    /\ IdleThreads

RemoveBorderingCall ==
    /\ call.op = "none"
    /\ \E rsize \in 0..MaxRsize, oo \in OutArguments :
         LET r == remove_bordering(mem, 1, rsize, oo[1], oo[2], 3)
         IN  /\ mem' = r.mem
             /\ call' = [NoCall EXCEPT !.op = "remove_bordering", !.status = r.status,
                                       !.ret = r.ret, !.arg = 1, !.rsize = rsize,
                                       !.out = oo[1], !.output = oo[2]]
    /\ pre' = mem
    /\ prev' = call
    /\ UNCHANGED <<orig, _perimeter_values, pc, loc, inits>>

BorderNext == RemoveBorderingCall

SpecBordering == BorderInit /\ [][BorderNext]_vars

\* position i lies in a slab of thickness rsize at the low or high end of an axis
InSlab(shape, i, rsize) ==
    \E dim \in 1..Len(shape) :
        \/ CoordOf(shape, i, dim) < rsize
        \/ CoordOf(shape, i, dim) >= shape[dim] - rsize

TouchingLabels(L, rsize) ==
    { L.data[i] : i \in { k \in Cells(L) : InSlab(L.shape, k, rsize) } } \ {0}

BorderingRemoved(L, R, rsize) ==
    /\ R.shape = L.shape
    /\ \A i \in Cells(L) :
          R.data[i] = IF L.data[i] \in TouchingLabels(L, rsize) THEN 0 ELSE L.data[i]

(* C5: for every rsize >= 0, remove_bordering(L, rsize) is 0 at the positions  *)
(* whose label occurs in a slab of thickness rsize at either end of an axis    *)
(* and equals L elsewhere, whether out is omitted, a separate buffer or L      *)
(* itself; the single pixel at (2,2) of a 5x5 array survives rsize = 1.        *)
C5_RemoveBordering ==
    (call.op = "remove_bordering" /\ call.output = 0) =>
        /\ call.status = "ok"
        /\ BorderingRemoved(pre[call.arg], mem[call.ret], call.rsize)
        /\ call.out # 0 => call.ret = call.out
        /\ call.out = 0 => (call.ret # call.arg /\ mem[call.arg] = pre[call.arg])
        /\ (pre[call.arg] = SinglePixel /\ call.rsize = 1) => mem[call.ret] = SinglePixel

\* the same, for rsize >= 1 only: what the code does do
RemoveBorderingPositiveRsize ==
    (call.op = "remove_bordering" /\ call.output = 0 /\ call.rsize >= 1) =>
        /\ call.status = "ok"
        /\ BorderingRemoved(pre[call.arg], mem[call.ret], call.rsize)
        /\ call.out # 0 => call.ret = call.out
        /\ call.out = 0 => (call.ret # call.arg /\ mem[call.arg] = pre[call.arg])
        /\ (pre[call.arg] = SinglePixel /\ call.rsize = 1) => mem[call.ret] = SinglePixel

(* C10: remove_bordering(L, rsize, output=buf) with out omitted completes      *)
(* normally, writes its result into buf and returns the map that               *)
(* remove_bordering(L, rsize, out=buf) returns.                                *)
C10_OutputAlias ==
    (call.op = "remove_bordering" /\ call.out = 0 /\ call.output # 0) =>
        /\ call.status = "ok"
        /\ call.ret = call.output
        /\ mem[call.output] =
             remove_bordering(pre, call.arg, call.rsize, call.output, 0, 3).mem[call.output]

---------------------------------------------------------------------------
(* perimeter, one call after another: the first call initialises the table,  *)
(* the second finds it initialised.                                          *)

PerimSide == 6
PerimShape == <<PerimSide, PerimSide>>

\* the filled h-by-w rectangle with top-left corner <<r0, c0>>
Rect(r0, c0, h, w) ==
    [shape |-> PerimShape,
     data |-> [i \in 1..Size(PerimShape) |->
                 IF /\ RowOf(PerimShape, i) \in r0..(r0 + h - 1)
                    /\ ColOf(PerimShape, i) \in c0..(c0 + w - 1)
                 THEN 1 ELSE 0]]

\* three pixels on a diagonal
Diagonal3 ==
    [shape |-> PerimShape,
     data |-> [i \in 1..Size(PerimShape) |->
                 IF /\ RowOf(PerimShape, i) = ColOf(PerimShape, i)
                    /\ RowOf(PerimShape, i) \in 1..3
                 THEN 1 ELSE 0]]

\* rectangles with at least one row and column of zeros on every side
RectPlaces ==
    { q \in (1..(PerimSide - 2)) \X (1..(PerimSide - 2))
            \X (1..(PerimSide - 2)) \X (1..(PerimSide - 2)) :
        q[1] + q[3] <= PerimSide - 1 /\ q[2] + q[4] <= PerimSide - 1 }

Rects == { Rect(q[1], q[2], q[3], q[4]) : q \in RectPlaces }

SquareSides == 2..(PerimSide - 2)

IsSquare(A, k) ==
    \E r0 \in 1..(PerimSide - 1 - k), c0 \in 1..(PerimSide - 1 - k) :
        A = Rect(r0, c0, k, k)

Squares == { A \in Rects : \E k \in SquareSides : IsSquare(A, k) }

PerimInputs == Rects \cup {Diagonal3}

PerimInit ==
    /\ mem \in { <<A, NoArray, NoArray>> : A \in PerimInputs }
    /\ NoCallYet
    /\ IdleThreads

PerimeterCall ==
    /\ call.op = "none" \/ (call.op = "perimeter" /\ prev.op = "none")
    /\ \E n \in {4, 8} :
         LET r == perimeter(_perimeter_values, mem[1], n)
         IN  /\ _perimeter_values' = r.table
             /\ call' = [NoCall EXCEPT !.op = "perimeter", !.status = "ok",
                                       !.arg = 1, !.conn = n, !.value = r.value]
    /\ pre' = mem
    /\ prev' = call
    /\ UNCHANGED <<mem, orig, pc, loc, inits>>

PerimNext == PerimeterCall

SpecPerimeter == PerimInit /\ [][PerimNext]_vars

(* C7 as stated: for every k >= 2, perimeter(bw, n=4, mode='constant') of a   *)
(* filled k-by-k square surrounded by zeros equals 4*k, the value being the    *)
(* dot product of the histogram of the convolved bwperim with the table.       *)
C7_PerimeterIs4k ==
    \A k \in SquareSides :
        (call.op = "perimeter" /\ call.conn = 4 /\ IsSquare(mem[call.arg], k)) =>
            call.value = <<2 * (4 * k), 0>>

(* C7, amended: that value is 4*(k-1): the square has 4*(k-1) perimeter        *)
(* pixels, each with response code 5, 15 or 25 and so weight 1.  The value is  *)
(* the same whether the call initialised the table or found it initialised.    *)
C7_PerimeterOfSquare ==
    \A k \in SquareSides :
        (call.op = "perimeter" /\ call.conn = 4 /\ IsSquare(mem[call.arg], k)) =>
            /\ call.value = <<2 * (4 * (k - 1)), 0>>
            /\ _perimeter_values = FullTable
            /\ \A i \in Cells(mem[call.arg]) :
                  bwperim(mem[call.arg], 4).data[i] = 1 =>
                      convolve(bwperim(mem[call.arg], 4)).data[i] \in {5, 15, 25}
            /\ Cardinality({ i \in Cells(mem[call.arg]) :
                               bwperim(mem[call.arg], 4).data[i] = 1 }) = 4 * (k - 1)

C7_Witness ==
    /\ call.op = "perimeter" /\ call.conn = 4
    /\ prev.op = "perimeter"
    /\ IsSquare(mem[call.arg], 3)
    /\ call.value = <<16, 0>>

---------------------------------------------------------------------------
(* perimeter, two calls at once.  A thread can be suspended between any two   *)
(* statements of lines 490-497; the table is the module-level global.         *)

ThreadInit ==
    /\ mem \in { <<A, NoArray, NoArray>> : A \in Squares \cup {Diagonal3} }
    /\ NoCallYet
    /\ IdleThreads

Goto(t, next) == pc' = [pc EXCEPT ![t] = next]

\* lines 484-488
Enter(t) ==
    /\ pc[t] = "idle"
    /\ loc' = [loc EXCEPT ![t].hist = PerimeterHistogram(mem[1], 4)]
    /\ Goto(t, "check")
    /\ UNCHANGED <<mem, orig, pre, call, prev, _perimeter_values, inits>>

\* line 490
Check(t) ==
    /\ pc[t] = "check"
    /\ Goto(t, IF _perimeter_values = NoTable THEN "alloc" ELSE "dot")
    /\ UNCHANGED <<mem, orig, pre, call, prev, _perimeter_values, loc, inits>>

\* line 491
Alloc(t) ==
    /\ pc[t] = "alloc"
    /\ _perimeter_values' = ZeroTable
    /\ inits' = inits + 1
    /\ Goto(t, "ones")
    /\ UNCHANGED <<mem, orig, pre, call, prev, loc>>

\* line 492
WriteOnes(t) ==
    /\ pc[t] = "ones"
    /\ _perimeter_values' = SetOnes(_perimeter_values)
    /\ Goto(t, "sqrt2")
    /\ UNCHANGED <<mem, orig, pre, call, prev, loc, inits>>

\* line 493
WriteSqrt2(t) ==
    /\ pc[t] = "sqrt2"
    /\ _perimeter_values' = SetSqrt2(_perimeter_values)
    /\ Goto(t, "half")
    /\ UNCHANGED <<mem, orig, pre, call, prev, loc, inits>>

\* line 494
WriteHalf(t) ==
    /\ pc[t] = "half"
    /\ _perimeter_values' = SetHalf(_perimeter_values)
    /\ Goto(t, "dot")
    /\ UNCHANGED <<mem, orig, pre, call, prev, loc, inits>>

\* lines 496-497
Dot(t) ==
    /\ pc[t] = "dot"
    /\ loc' = [loc EXCEPT ![t].table = _perimeter_values,
                          ![t].result = PerimeterDot(loc[t].hist, _perimeter_values)]
    /\ Goto(t, "done")
    /\ UNCHANGED <<mem, orig, pre, call, prev, _perimeter_values, inits>>

ThreadNext ==
    \E t \in Threads :
        \/ Enter(t)
        \/ Check(t)
        \/ Alloc(t)
        \/ WriteOnes(t)
        \/ WriteSqrt2(t)
        \/ WriteHalf(t)
        \/ Dot(t)

SpecThreads == ThreadInit /\ [][ThreadNext]_vars

(* C9: under any interleaving of two concurrent perimeter calls starting from  *)
(* the uninitialised state, the table is initialised at most once, is not      *)
(* modified after a call has read it, and every call computes its dot product  *)
(* against the fully populated table.                                          *)
C9_TableInitialisedOnce ==
    /\ inits <= 1
    /\ \A t \in Threads :
          pc[t] = "done" =>
              /\ loc[t].table = FullTable
              /\ _perimeter_values = loc[t].table
              /\ loc[t].result = PerimeterDot(loc[t].hist, FullTable)

\* one call on its own does all of that
SingleCallInitialises ==
    \A t \in Threads :
        (pc[t] = "done" /\ \A u \in Threads \ {t} : pc[u] = "idle") =>
            /\ inits = 1
            /\ loc[t].table = FullTable
            /\ _perimeter_values = FullTable

====
